---------------------------- MODULE Spec2Model ----------------------------
(***************************************************************************)
(* A model of reedline's SQLite backed history                              *)
(* (src/history/sqlite_backed.rs, src/history/item.rs).                    *)
(*                                                                         *)
(* The state is the database behind the one connection the store owns:     *)
(* the rows of table `history` and the AUTOINCREMENT counter SQLite keeps   *)
(* for it in sqlite_sequence.  Every method of `impl History for           *)
(* SqliteBackedHistory` is an operator computing the new database and the  *)
(* method's result, and an action applying it.  Spec has one owner of the  *)
(* store call its methods, SpecQuery searches and counts over saved        *)
(* tables, SpecConstruct lowers queries to statements, and SpecSessions    *)
(* and SpecUpdaters have two processes work on the same database.          *)
(***************************************************************************)
EXTENDS Integers, Sequences, FiniteSets, TLC

VARIABLES
    db,         \* self.db: [history: id -> row, sqlite_sequence: largest rowid ever used]
    last,       \* the call that was made last: [op, arg, res]
    maxNewId,   \* history variable: the largest id a save of a new item has returned, 0 for none
    maxSeenSession, \* history variable: the largest session_id a row has ever carried, 0 for none
    everIds,    \* history variable: the ids of all rows the table has ever held
    clients     \* the processes that have the database open: where each is in its call

vars == <<db, last, maxNewId, maxSeenSession, everIds, clients>>

---------------------------------------------------------------------------
(* Bounds of the model.                                                    *)

\* ids the backend hands out are 1..MaxId (rowids are capped here, not at 2^63-1)
MaxId == 2
\* session identifiers carried by the enumerated items are 1..MaxSession
MaxSession == 2
\* the tables that are searched hold rows with ids among 1..MaxRows
MaxRows == 3
\* the limits of the enumerated queries are -1..MaxLimit
MaxLimit == 2

---------------------------------------------------------------------------
(* Option<T> and Result<T>.                                                *)

None == <<>>
Some(x) == <<x>>
IsSome(o) == Len(o) = 1
Unwrap(o) == o[1]
\* o.map(|e| v): v is the closure's value at Unwrap(o), used only when o is Some
map(o, v) == IF IsSome(o) THEN Some(v) ELSE None

Ok(v) == [ok |-> TRUE, val |-> v]
Err(e) == [ok |-> FALSE, err |-> e]
\* the call does not return: `unwrap()` on an Err aborts the caller
Panic(e) == [ok |-> FALSE, panic |-> e]
Panicked(r) == "panic" \in DOMAIN r

Max(a, b) == IF a >= b THEN a ELSE b
Min(a, b) == IF a <= b THEN a ELSE b

---------------------------------------------------------------------------
(* Values of the record model (item.rs) and their conversions.             *)

\* HistoryItemId(i64), HistorySessionId(i64): the wrapped integer
HistoryItemId(i) == i
HistorySessionId(i) == i

\* The default ExtraInfo: serialised as JSON null, deserialised from anything.
Anything == "Anything"
\* serde_json::to_string(&Anything): Option::<Anything>::None.serialize
serialize_Anything(a) == "null"
\* serde_json::from_str::<Anything>: IgnoredAny accepts every well-formed JSON text
JsonTexts == {"null", "{}", "1"}
deserialize_Anything(text) == IF text \in JsonTexts THEN Ok(Anything) ELSE Err("json")

\* chrono::DateTime<Utc>, as whole milliseconds since the epoch (ms) and the
\* nanoseconds below the millisecond (ns, 0..999999).
DateTime(ms, ns) == [ms |-> ms, ns |-> ns]
\* DateTime::timestamp_millis: the sub-millisecond part is dropped
timestamp_millis(dt) == dt.ms
\* Utc.timestamp_millis(e)
Utc_timestamp_millis(e) == DateTime(e, 0)

\* std::time::Duration.  as_millis() is a u128; the model keeps it as two 64 bit
\* limbs, hi * 2^64 + lo, and ns is the part below the millisecond (0..999999).
Duration(hi, lo, ns) == [hi |-> hi, lo |-> lo, ns |-> ns]
\* Duration::as_millis: u128, the sub-millisecond part is dropped
as_millis(d) == [hi |-> d.hi, lo |-> d.lo]
\* `as i64` on a u128 keeps the low 64 bits
u128_as_i64(m) == m.lo
\* Duration::from_millis(e as u64)
Duration_from_millis(e) == Duration(0, e, 0)

\* HistoryItem
HistoryItem(id, ts, cmd, sess, host, cwd, dur, exit, more) ==
    [id |-> id, start_timestamp |-> ts, command_line |-> cmd, session_id |-> sess,
     hostname |-> host, cwd |-> cwd, duration |-> dur, exit_status |-> exit,
     more_info |-> more]

\* HistoryItem::from_command_line
from_command_line(cmd) ==
    HistoryItem(None, None, cmd, None, None, None, None, None, None)

---------------------------------------------------------------------------
(* The table and SQLite's execution of the statements the store issues.    *)

\* from_connection: the columns of `create table history`
Columns == {"id", "command_line", "start_timestamp", "session_id", "hostname",
            "cwd", "duration_ms", "exit_status", "more_info"}

Ids == 1..MaxId

\* the ids (rowids) of the rows of a table
RowIds(history) == DOMAIN history

SetMax(S) == CHOOSE m \in S : \A x \in S : x <= m

\* the largest rowid in the table, 0 for the empty table
MaxRowid(history) == IF RowIds(history) = {} THEN 0 ELSE SetMax(RowIds(history))

\* a rowid column that is not AUTOINCREMENT: one more than the largest rowid present
NextRowidNoAutoincrement(d) == MaxRowid(d.history) + 1
\* `id integer primary key autoincrement`: one more than the largest rowid the
\* table has ever held, which sqlite_sequence remembers across deletes
NextRowid(d) == Max(d.sqlite_sequence, MaxRowid(d.history)) + 1

\* The named parameters save binds: the row to write (id possibly NULL).
save_params(entry) ==
    [id |-> map(entry.id, Unwrap(entry.id)),
     start_timestamp |-> map(entry.start_timestamp,
                             timestamp_millis(Unwrap(entry.start_timestamp))),
     command_line |-> entry.command_line,
     session_id |-> map(entry.session_id, Unwrap(entry.session_id)),
     hostname |-> entry.hostname,
     cwd |-> entry.cwd,
     duration_ms |-> map(entry.duration, u128_as_i64(as_millis(Unwrap(entry.duration)))),
     exit_status |-> entry.exit_status,
     more_info |-> map(entry.more_info, serialize_Anything(Unwrap(entry.more_info)))]

\* an insert that leaves sqlite_sequence alone when the statement supplies the rowid
insert_on_conflict_update_forgetting_explicit(d, p) ==
    LET rowid == IF IsSome(p.id) THEN Unwrap(p.id) ELSE NextRowid(d)
        row == [p EXCEPT !.id = rowid]
    IN  [db |-> [history |-> [i \in RowIds(d.history) \cup {rowid} |->
                                 IF i = rowid THEN row ELSE d.history[i]],
                 sqlite_sequence |-> IF IsSome(p.id) THEN d.sqlite_sequence ELSE rowid],
         id |-> rowid]
\* `insert into history (...) values (...) on conflict (history.id) do update set
\* ... returning id`: the new database and the id returned.
insert_on_conflict_update(d, p) ==
    LET rowid == IF IsSome(p.id) THEN Unwrap(p.id) ELSE NextRowid(d)
        row == [p EXCEPT !.id = rowid]
    IN  [db |-> [history |-> [i \in RowIds(d.history) \cup {rowid} |->
                                 IF i = rowid THEN row ELSE d.history[i]],
                 sqlite_sequence |-> Max(d.sqlite_sequence, rowid)],
         id |-> rowid]

\* `delete from history where id = ?`: the new database and the number of rows changed
delete_where_id(d, h) ==
    [db |-> [d EXCEPT !.history = [i \in RowIds(d.history) \ {h} |-> d.history[i]]],
     changed |-> IF h \in RowIds(d.history) THEN 1 ELSE 0]

\* max(session_id) over the rows whose session_id is not NULL; None for no such row
max_session_id(history) ==
    LET S == {Unwrap(history[i].session_id) :
                 i \in {j \in RowIds(history) : IsSome(history[j].session_id)}}
    IN  IF S = {} THEN None ELSE Some(SetMax(S))

---------------------------------------------------------------------------
(* impl History for SqliteBackedHistory.                                   *)

deserialize_history_item(row) ==
    LET x == row.more_info
        more == deserialize_Anything(Unwrap(x))
    IN  IF IsSome(x) /\ ~more.ok
        THEN Err("could not deserialize more_info")
        ELSE Ok(HistoryItem(
                 Some(HistoryItemId(row.id)),
                 map(row.start_timestamp,
                     Utc_timestamp_millis(Unwrap(row.start_timestamp))),
                 row.command_line,
                 map(row.session_id, HistorySessionId(Unwrap(row.session_id))),
                 row.hostname,
                 row.cwd,
                 map(row.duration_ms, Duration_from_millis(Unwrap(row.duration_ms))),
                 row.exit_status,
                 map(x, more.val)))

\* save: the new database and the Result returned
save(d, entry) ==
    LET r == insert_on_conflict_update(d, save_params(entry))
    IN  [db |-> r.db,
         res |-> Ok([entry EXCEPT !.id = Some(HistoryItemId(r.id))])]

\* load
load(d, id) ==
    IF id \in RowIds(d.history)
    THEN deserialize_history_item(d.history[id])
    ELSE Err("Query returned no rows")

\* delete
delete(d, h) ==
    LET r == delete_where_id(d, h)
    IN  IF r.changed = 0
        THEN [db |-> r.db, res |-> Err("Could not find item")]
        ELSE [db |-> r.db, res |-> Ok(<<>>)]

\* the aggregate without its `+ 1`
new_session_id_without_increment(d) ==
    LET m == max_session_id(d.history)
    IN  Ok(HistorySessionId(IF IsSome(m) THEN Unwrap(m) ELSE 0))
\* new_session_id: select coalesce(max(session_id), 0) + 1 from history
new_session_id(d) ==
    LET m == max_session_id(d.history)
    IN  Ok(HistorySessionId((IF IsSome(m) THEN Unwrap(m) ELSE 0) + 1))

\* The transformations the callers of update pass (`updater`), by name.
Updaters == {"set_exit_status", "clear_id", "other_id"}
updater(f, item) ==
    CASE f = "set_exit_status" -> [item EXCEPT !.exit_status = Some(0)]
      [] f = "clear_id" -> [item EXCEPT !.id = None]
      [] f = "other_id" -> [item EXCEPT !.id = Some((Unwrap(item.id) % MaxId) + 1)]
      [] f = "set_hostname" -> [item EXCEPT !.hostname = Some("h1")]

\* update whose failed load is not propagated: the transformation is applied to an
\* empty item under the requested id and saved
update_ignoring_load_error(d, id, f) ==
    LET item == load(d, id)
        it == IF item.ok THEN item.val
              ELSE [from_command_line(<<>>) EXCEPT !.id = Some(id)]
        s == save(d, updater(f, it))
    IN  [db |-> s.db, res |-> Ok(<<>>)]
\* update: load(id)?, then save(updater(item))?
update(d, id, f) ==
    LET item == load(d, id)
    IN  IF ~item.ok
        THEN [db |-> d, res |-> item]
        ELSE LET s == save(d, updater(f, item.val))
             IN  [db |-> s.db, res |-> IF s.res.ok THEN Ok(<<>>) ELSE s.res]

\* the first statement of update, `let item = self.load(id)?`
update_load(d, id) == load(d, id)

\* a second statement of update that reads the row again before transforming it
update_save_reloading(d, item, f) ==
    save(d, updater(f, load(d, Unwrap(item.id)).val))
\* the second statement of update, `self.save(updater(item))?`, with the item
\* the first statement loaded
update_save(d, item, f) == save(d, updater(f, item))

---------------------------------------------------------------------------
(* SearchQuery (base.rs, as construct_query reads it) and query lowering.  *)

SearchQuery(direction, start_time, end_time, start_id, end_id, limit, filter) ==
    [direction |-> direction, start_time |-> start_time, end_time |-> end_time,
     start_id |-> start_id, end_id |-> end_id, limit |-> limit, filter |-> filter]

SearchFilter(command_line, not_command_line, hostname, cwd_exact, cwd_prefix, exit_successful) ==
    [command_line |-> command_line, not_command_line |-> not_command_line,
     hostname |-> hostname, cwd_exact |-> cwd_exact, cwd_prefix |-> cwd_prefix,
     exit_successful |-> exit_successful]

\* CommandLineSearch::{Exact, Prefix, Substring}(text)
CommandLineSearch(kind, text) == [kind |-> kind, text |-> text]

\* the text bound to :command_line
command_line_like(c) ==
    CASE c.kind = "Exact" -> c.text
      [] c.kind = "Prefix" -> c.text \o <<"%">>
      [] c.kind = "Substring" -> <<"%">> \o c.text \o <<"%">>

\* start_id lowered with a comparison that admits the bound itself
start_id_where_inclusive(is_asc) ==
    IF is_asc THEN "id >= :start_id" ELSE "id <= :start_id"
\* the where clause pushed for start_id
start_id_where(is_asc) ==
    IF is_asc THEN "id > :start_id" ELSE "id < :start_id"

\* the limit written into the statement text for the values the caller passes most
limit_clause_inlined(limit) ==
    IF limit = None THEN ""
    ELSE IF Unwrap(limit) = 0 THEN "limit 0" ELSE "limit :limit"
\* `let limit = match query.limit`: the text of the limit clause
limit_clause(limit) == IF IsSome(limit) THEN "limit :limit" ELSE ""

\* the concatenation of a sequence of sequences
RECURSIVE concat_all(_)
concat_all(qs) == IF qs = <<>> THEN <<>> ELSE Head(qs) \o concat_all(Tail(qs))

\* one `if let Some(..)` block of construct_query: what it pushes to wheres and params
\* (value is read only when opt is Some)
Pushed(opt, where, name, value) ==
    IF IsSome(opt)
    THEN [wheres |-> IF where = "" THEN <<>> ELSE <<where>>,
          params |-> IF name = "" THEN <<>> ELSE << <<name, value>> >>]
    ELSE [wheres |-> <<>>, params |-> <<>>]

\* construct_query: the statement (select expression, where clauses, order, limit
\* text) and the named parameters, in the order they are pushed
construct_query(query, select_expression) ==
    LET is_asc == query.direction = "Forward"
        asc == IF is_asc THEN "asc" ELSE "desc"
        f == query.filter
        blocks ==
            << Pushed(query.start_time,
                      IF is_asc THEN "timestamp_start > :start_time"
                                ELSE "timestamp_start < :start_time",
                      ":start_time", timestamp_millis(Unwrap(query.start_time))),
               Pushed(query.end_time,
                      IF is_asc THEN ":end_time >= timestamp_start"
                                ELSE ":end_time <= timestamp_start",
                      ":end_time", timestamp_millis(Unwrap(query.end_time))),
               Pushed(query.start_id, start_id_where(is_asc), ":start_id",
                      Unwrap(query.start_id)),
               Pushed(query.end_id,
                      IF is_asc THEN ":end_id >= id" ELSE ":end_id <= id",
                      ":end_id", Unwrap(query.end_id)),
               Pushed(query.limit, "", ":limit", Unwrap(query.limit)),
               Pushed(f.command_line, "command_line like :command_line",
                      ":command_line", command_line_like(Unwrap(f.command_line))),
               Pushed(f.not_command_line, "command_line != :not_cmd", ":not_cmd",
                      Unwrap(f.not_command_line)),
               Pushed(f.hostname, "hostname = :hostname", ":hostname", Unwrap(f.hostname)),
               Pushed(f.cwd_exact, "cwd = :cwd", ":cwd", Unwrap(f.cwd_exact)),
               Pushed(f.cwd_prefix, "cwd like :cwd_like", ":cwd_like",
                      Unwrap(f.cwd_prefix) \o <<"%">>),
               Pushed(f.exit_successful,
                      IF f.exit_successful = Some(TRUE)
                      THEN "exit_status = 0" ELSE "exit_status != 0",
                      "", None) >>
        wheres == concat_all([i \in 1..Len(blocks) |-> blocks[i].wheres])
        params == concat_all([i \in 1..Len(blocks) |-> blocks[i].params])
    IN  [text |-> [select |-> select_expression,
                   wheres |-> IF wheres = <<>> THEN <<"true">> ELSE wheres,
                   asc |-> asc,
                   limit |-> limit_clause(query.limit)],
         params |-> params]

---------------------------------------------------------------------------
(* SQLite's preparation and execution of the constructed statement.        *)

\* the column a where clause names; None for the constant `true`
where_column(w) ==
    CASE w \in {"timestamp_start > :start_time", "timestamp_start < :start_time",
                ":end_time >= timestamp_start", ":end_time <= timestamp_start"}
             -> Some("timestamp_start")
      [] w \in {"id > :start_id", "id < :start_id", "id >= :start_id",
                "id <= :start_id", ":end_id >= id", ":end_id <= id"} -> Some("id")
      [] w \in {"command_line like :command_line", "command_line != :not_cmd"}
             -> Some("command_line")
      [] w = "hostname = :hostname" -> Some("hostname")
      [] w \in {"cwd = :cwd", "cwd like :cwd_like"} -> Some("cwd")
      [] w \in {"exit_status = 0", "exit_status != 0"} -> Some("exit_status")
      [] w = "true" -> None

\* Connection::prepare: a statement naming a column the table lacks is rejected
prepare(text) ==
    IF \E i \in 1..Len(text.wheres) :
          /\ IsSome(where_column(text.wheres[i]))
          /\ Unwrap(where_column(text.wheres[i])) \notin Columns
    THEN Err("no such column")
    ELSE Ok(text)

\* the value bound to a named parameter
Param(params, name) ==
    LET i == CHOOSE j \in 1..Len(params) : params[j][1] = name
    IN  params[i][2]

\* LIKE folds the case of the ASCII letters
UpperCase == <<"A", "B", "C", "D", "E", "F", "G", "H", "I", "J", "K", "L", "M",
               "N", "O", "P", "Q", "R", "S", "T", "U", "V", "W", "X", "Y", "Z">>
LowerCase == <<"a", "b", "c", "d", "e", "f", "g", "h", "i", "j", "k", "l", "m",
               "n", "o", "p", "q", "r", "s", "t", "u", "v", "w", "x", "y", "z">>
fold(c) ==
    IF \E i \in 1..Len(UpperCase) : UpperCase[i] = c
    THEN LowerCase[CHOOSE i \in 1..Len(UpperCase) : UpperCase[i] = c]
    ELSE c

\* `x like p`: % matches any run of characters, _ any one character, a letter
\* matches itself in either case
RECURSIVE like(_, _)
like(x, p) ==
    IF p = <<>> THEN x = <<>>
    ELSE IF Head(p) = "%"
         THEN like(x, Tail(p)) \/ (x # <<>> /\ like(Tail(x), p))
    ELSE IF x = <<>> THEN FALSE
    ELSE IF Head(p) = "_" THEN like(Tail(x), Tail(p))
    ELSE fold(Head(x)) = fold(Head(p)) /\ like(Tail(x), Tail(p))

\* whether a where clause is true of a row.  A comparison with a NULL column is
\* NULL, which selects the row no more than false does.
where_true(w, row, params) ==
    CASE w = "true" -> TRUE
      [] w = "id > :start_id" -> row.id > Param(params, ":start_id")
      [] w = "id < :start_id" -> row.id < Param(params, ":start_id")
      [] w = "id >= :start_id" -> row.id >= Param(params, ":start_id")
      [] w = "id <= :start_id" -> row.id <= Param(params, ":start_id")
      [] w = ":end_id >= id" -> Param(params, ":end_id") >= row.id
      [] w = ":end_id <= id" -> Param(params, ":end_id") <= row.id
      [] w = "command_line like :command_line" ->
             like(row.command_line, Param(params, ":command_line"))
      [] w = "command_line != :not_cmd" ->
             row.command_line # Param(params, ":not_cmd")
      [] w = "hostname = :hostname" ->
             IsSome(row.hostname) /\ Unwrap(row.hostname) = Param(params, ":hostname")
      [] w = "cwd = :cwd" ->
             IsSome(row.cwd) /\ Unwrap(row.cwd) = Param(params, ":cwd")
      [] w = "cwd like :cwd_like" ->
             IsSome(row.cwd) /\ like(Unwrap(row.cwd), Param(params, ":cwd_like"))
      [] w = "exit_status = 0" ->
             IsSome(row.exit_status) /\ Unwrap(row.exit_status) = 0
      [] w = "exit_status != 0" ->
             IsSome(row.exit_status) /\ Unwrap(row.exit_status) # 0

\* the ids of the rows the where clauses (joined by `and`) select
selected(history, text, params) ==
    {i \in RowIds(history) :
        \A k \in 1..Len(text.wheres) : where_true(text.wheres[k], history[i], params)}

\* a finite set of integers as the ascending sequence of its elements
RECURSIVE ascending(_)
ascending(S) ==
    IF S = {} THEN <<>>
    ELSE LET m == CHOOSE x \in S : \A y \in S : x <= y
         IN  <<m>> \o ascending(S \ {m})

reverse(q) == [i \in 1..Len(q) |-> q[Len(q) + 1 - i]]

\* `order by id asc` / `order by id desc`
order_by_id(S, asc) == IF asc = "asc" THEN ascending(S) ELSE reverse(ascending(S))

\* `limit :limit` on a sequence of result rows: a negative limit is no limit
apply_limit(q, text, params) ==
    IF text.limit = "" \/ Param(params, ":limit") < 0
    THEN q
    ELSE SubSeq(q, 1, Min(Len(q), Param(params, ":limit")))

\* the rows `select * from history where .. order by id .. limit ..` returns
select_rows(d, text, params) ==
    LET ids == apply_limit(order_by_id(selected(d.history, text, params), text.asc),
                           text, params)
    IN  [k \in 1..Len(ids) |-> d.history[ids[k]]]

\* the rows `select coalesce(count(*), 0) from history where .. order by id .. limit ..`
\* returns: the one row of the aggregate, which the limit applies to
select_count(d, text, params) ==
    apply_limit(<< Cardinality(selected(d.history, text, params)) >>, text, params)

---------------------------------------------------------------------------
(* count and search.                                                       *)

\* count: prepare(..).unwrap(), then query_row
count(d, query) ==
    LET q == construct_query(query, "coalesce(count(*), 0)")
    IN  IF ~prepare(q.text).ok
        THEN Panic(prepare(q.text).err)
        ELSE LET rows == select_count(d, q.text, q.params)
             IN  IF rows = <<>>
                 THEN Err("Query returned no rows")
                 ELSE Ok(rows[1])

\* search: prepare(..).unwrap(), then query_map(deserialize_history_item) collected
search(d, query) ==
    LET q == construct_query(query, "*")
    IN  IF ~prepare(q.text).ok
        THEN Panic(prepare(q.text).err)
        ELSE LET rows == select_rows(d, q.text, q.params)
                 items == [k \in 1..Len(rows) |-> deserialize_history_item(rows[k])]
             IN  IF \E k \in 1..Len(items) : ~items[k].ok
                 THEN Err("could not deserialize more_info")
                 ELSE Ok([k \in 1..Len(items) |-> items[k].val])

---------------------------------------------------------------------------
(* The items the callers save.                                             *)

ls == <<"l", "s">>
LS == <<"L", "S">>
als == <<"a", "l", "s">>
ls_la == <<"l", "s", " ", "-", "l", "a">>
cd == <<"c", "d">>
l_ == <<"l", "_">>
_s == <<"_", "s">>
la == <<"l", "a">>
pct == <<"%">>
_a == <<"_", "a">>
dir_a == <<"/", "a">>
dir_ab == <<"/", "a", "b">>

\* an item of session k with every optional field present, in whole milliseconds
FullItem(k) ==
    HistoryItem(None, Some(DateTime(1000 * k, 0)), ls_la, Some(HistorySessionId(k)),
                Some("h1"), Some(dir_a), Some(Duration(0, 5, 0)), Some(0), Some(Anything))

\* a timestamp and a duration with a part below the millisecond
SubMillisItem ==
    HistoryItem(None, Some(DateTime(2500, 500)), cd, None, Some("h2"), None,
                Some(Duration(0, 7, 250000)), None, Some(Anything))

\* a duration of 2^64 milliseconds
LongDurationItem ==
    HistoryItem(None, None, als, None, None, None, Some(Duration(1, 0, 0)), Some(2), None)

ItemList ==
    <<from_command_line(ls), SubMillisItem, LongDurationItem>>
        \o [k \in 1..MaxSession |-> FullItem(k)]

Items == {ItemList[k] : k \in 1..Len(ItemList)}

\* an item as passed to save: not yet persisted (id = None) or carrying an id
Entries == {[it EXCEPT !.id = id] : it \in Items, id \in {None} \cup {Some(i) : i \in Ids}}

\* a save of this entry stays within the ids of the model
WithinIds(d, entry) == IsSome(entry.id) \/ NextRowid(d) <= MaxId

\* the session ids the rows of a table carry
Sessions(history) ==
    {Unwrap(history[i].session_id) :
        i \in {j \in RowIds(history) : IsSome(history[j].session_id)}}

---------------------------------------------------------------------------
(* The store's operations as actions.                                      *)

EmptyHistory == [i \in {} |-> None]

\* the processes that open the same database file (with_file)
Clients == {"c1", "c2"}

\* a client between two calls: no call under way, no session id obtained, no
\* update completed yet (done is the last update that returned, with its result)
ClientIdle == [pc |-> "idle", call |-> None, item |-> None, session |-> None, done |-> None]

Init ==
    /\ db = [history |-> EmptyHistory, sqlite_sequence |-> 0]
    /\ last = [op |-> "open", arg |-> None, res |-> Ok(<<>>)]
    /\ maxNewId = 0
    /\ maxSeenSession = 0
    /\ everIds = {}
    /\ clients = [c \in Clients |-> ClientIdle]

Save(entry) ==
    /\ WithinIds(db, entry)
    /\ LET r == save(db, entry)
       IN  /\ db' = r.db
           /\ last' = [op |-> "save", arg |-> entry, res |-> r.res]
           /\ maxNewId' = IF entry.id = None
                          THEN Max(maxNewId, Unwrap(r.res.val.id))
                          ELSE maxNewId
           /\ maxSeenSession' = SetMax({maxSeenSession} \cup Sessions(r.db.history))
           /\ everIds' = everIds \cup RowIds(r.db.history)
    /\ UNCHANGED clients

Load(id) ==
    /\ last' = [op |-> "load", arg |-> id, res |-> load(db, id)]
    /\ UNCHANGED <<db, maxNewId, maxSeenSession, everIds, clients>>

Delete(h) ==
    /\ LET r == delete(db, h)
       IN  /\ db' = r.db
           /\ last' = [op |-> "delete", arg |-> h, res |-> r.res]
    /\ UNCHANGED <<maxNewId, maxSeenSession, everIds, clients>>

Update(id, f) ==
    /\ load(db, id).ok => WithinIds(db, updater(f, load(db, id).val))
    /\ LET r == update(db, id, f)
       IN  /\ db' = r.db
           /\ last' = [op |-> "update", arg |-> <<id, f>>, res |-> r.res]
           /\ maxSeenSession' = SetMax({maxSeenSession} \cup Sessions(r.db.history))
           /\ everIds' = everIds \cup RowIds(r.db.history)
    /\ UNCHANGED <<maxNewId, clients>>

NewSessionId ==
    /\ last' = [op |-> "new_session_id", arg |-> None, res |-> new_session_id(db)]
    /\ UNCHANGED <<db, maxNewId, maxSeenSession, everIds, clients>>

Next ==
    \/ \E entry \in Entries : Save(entry)
    \/ \E id \in Ids : Load(id)
    \/ \E h \in Ids : Delete(h)
    \/ \E id \in Ids, f \in Updaters : Update(id, f)
    \/ NewSessionId

Spec == Init /\ [][Next]_vars

---------------------------------------------------------------------------
(* Searching and counting: a table, a SearchQuery the caller has           *)
(* constructed, and the call of search or count with it.                   *)

\* the database after saving, for each id of S in ascending order, an item of
\* ItemList under that id
RECURSIVE saved_all(_, _, _)
saved_all(d, S, shift) ==
    IF S = {} THEN d
    ELSE LET i == CHOOSE x \in S : \A y \in S : x <= y
             it == ItemList[((i + shift) % Len(ItemList)) + 1]
         IN  saved_all(save(d, [it EXCEPT !.id = Some(HistoryItemId(i))]).db,
                       S \ {i}, shift)

NoFilter == SearchFilter(None, None, None, None, None, None)

Filters ==
    {NoFilter,
     SearchFilter(None, None, Some("h1"), None, None, None),
     SearchFilter(None, None, None, None, None, Some(TRUE)),
     SearchFilter(Some(CommandLineSearch("Prefix", ls)), None, None, None, None, None),
     SearchFilter(None, Some(ls), None, None, Some(dir_a), Some(FALSE))}

\* filters on the texts: letters of the other case and the characters % and _
TextFilters ==
    {SearchFilter(Some(CommandLineSearch("Exact", ls)), None, None, None, None, None),
     SearchFilter(Some(CommandLineSearch("Exact", LS)), None, None, None, None, None),
     SearchFilter(Some(CommandLineSearch("Exact", l_)), None, None, None, None, None),
     SearchFilter(Some(CommandLineSearch("Prefix", _s)), None, None, None, None, None),
     SearchFilter(Some(CommandLineSearch("Substring", la)), None, None, None, None, None),
     SearchFilter(Some(CommandLineSearch("Substring", pct)), None, None, None, None, None),
     SearchFilter(None, None, None, None, Some(_a), None),
     SearchFilter(None, None, None, Some(dir_a), Some(dir_a), None)}

Directions == {"Forward", "Backward"}
IdOpts == {None} \cup {Some(HistoryItemId(i)) : i \in 1..MaxRows}
LimitOpts == {None} \cup {Some(n) : n \in (-1)..MaxLimit}
TimeOpts == {None, Some(DateTime(1500, 0))}

Queries ==
    {SearchQuery(dir, None, None, s, e, l, f) :
        dir \in Directions, s \in IdOpts, e \in IdOpts, l \in LimitOpts, f \in Filters}
    \cup {SearchQuery(dir, st, et, None, None, l, NoFilter) :
            dir \in Directions, st \in TimeOpts, et \in TimeOpts, l \in {None, Some(0)}}
    \cup {SearchQuery(dir, None, None, None, None, None, f) :
            dir \in Directions, f \in TextFilters}

InitQuery ==
    /\ \E S \in SUBSET (1..MaxRows), shift \in 0..(Len(ItemList) - 1) :
           db = saved_all([history |-> EmptyHistory, sqlite_sequence |-> 0], S, shift)
    /\ \E q \in Queries : last = [op |-> "SearchQuery", arg |-> q, res |-> Ok(<<>>)]
    /\ maxNewId = 0
    /\ maxSeenSession = SetMax({0} \cup Sessions(db.history))
    /\ everIds = RowIds(db.history)
    /\ clients = [c \in Clients |-> ClientIdle]

Search ==
    /\ last.op = "SearchQuery"
    /\ last' = [op |-> "search", arg |-> last.arg, res |-> search(db, last.arg)]
    /\ UNCHANGED <<db, maxNewId, maxSeenSession, everIds, clients>>

Count ==
    /\ last.op = "SearchQuery"
    /\ last' = [op |-> "count", arg |-> last.arg, res |-> count(db, last.arg)]
    /\ UNCHANGED <<db, maxNewId, maxSeenSession, everIds, clients>>

NextQuery == Search \/ Count

SpecQuery == InitQuery /\ [][NextQuery]_vars

---------------------------------------------------------------------------
(* Query lowering alone: a SearchQuery the caller has constructed and the   *)
(* call of construct_query with it, as search and count make it.           *)

SelectExpressions == {"*", "coalesce(count(*), 0)"}

InitConstruct ==
    /\ db = [history |-> EmptyHistory, sqlite_sequence |-> 0]
    /\ \E q \in Queries : last = [op |-> "SearchQuery", arg |-> q, res |-> Ok(<<>>)]
    /\ maxNewId = 0
    /\ maxSeenSession = 0
    /\ everIds = {}
    /\ clients = [c \in Clients |-> ClientIdle]

ConstructQuery(select_expression) ==
    /\ last.op = "SearchQuery"
    /\ last' = [op |-> "construct_query", arg |-> last.arg,
                res |-> construct_query(last.arg, select_expression)]
    /\ UNCHANGED <<db, maxNewId, maxSeenSession, everIds, clients>>

NextConstruct == \E select_expression \in SelectExpressions : ConstructQuery(select_expression)

SpecConstruct == InitConstruct /\ [][NextConstruct]_vars

---------------------------------------------------------------------------
(* Several processes on one database file.  Each statement a method issues *)
(* is one step; update issues two, its load and its save, and the          *)
(* statements of other processes may run between them.  SpecSessions has   *)
(* the clients allocate session ids and save, SpecUpdaters has them update. *)

\* the transformations the concurrent callers of update pass
ClientUpdaters == {"set_exit_status", "set_hostname"}

\* a new_session_id that also looks at the session ids other callers hold
client_new_session_id_reserving(d, cs, c) ==
    LET held == {Unwrap(cs[x].session) : x \in {y \in Clients : IsSome(cs[y].session)}}
        m == max_session_id(d.history)
        top == SetMax(held \cup {IF IsSome(m) THEN Unwrap(m) ELSE 0})
    IN  [cs EXCEPT ![c].session = Some(HistorySessionId(top + 1))]
\* client c calls new_session_id and keeps the id for the items it will save
client_new_session_id(d, cs, c) ==
    [cs EXCEPT ![c].session = Some(new_session_id(d).val)]

\* the commands the clients run
ClientCommands == {ls, cd, als}

\* the item client c saves for a command it ran: it carries the client's session id
client_item(cs, c, cmd) == [from_command_line(cmd) EXCEPT !.session_id = cs[c].session]

ClientNewSessionId(c) ==
    /\ clients[c].pc = "idle"
    /\ new_session_id(db).val <= MaxSession
    /\ clients' = client_new_session_id(db, clients, c)
    /\ last' = [op |-> "new_session_id", arg |-> <<c>>, res |-> Ok(Unwrap(clients'[c].session))]
    /\ UNCHANGED <<db, maxNewId, maxSeenSession, everIds>>

ClientSave(c, cmd) ==
    /\ clients[c].pc = "idle"
    /\ IsSome(clients[c].session)
    /\ WithinIds(db, client_item(clients, c, cmd))
    /\ LET r == save(db, client_item(clients, c, cmd))
       IN  /\ db' = r.db
           /\ last' = [op |-> "save", arg |-> <<c, cmd>>, res |-> r.res]
           /\ maxNewId' = Max(maxNewId, Unwrap(r.res.val.id))
           /\ maxSeenSession' = SetMax({maxSeenSession} \cup Sessions(r.db.history))
           /\ everIds' = everIds \cup RowIds(r.db.history)
    /\ UNCHANGED clients

ClientUpdateLoad(c, id, f) ==
    /\ clients[c].pc = "idle"
    /\ LET r == update_load(db, id)
       IN  /\ clients' =
                  [clients EXCEPT ![c] =
                      IF r.ok
                      THEN [@ EXCEPT !.pc = "update_loaded", !.call = Some(<<id, f>>),
                                     !.item = Some(r.val)]
                      ELSE @]
           /\ last' = [op |-> "update_load", arg |-> <<c, id, f>>, res |-> r]
    /\ UNCHANGED <<db, maxNewId, maxSeenSession, everIds>>

ClientUpdateSave(c) ==
    /\ clients[c].pc = "update_loaded"
    /\ LET call == Unwrap(clients[c].call)
           s == update_save(db, Unwrap(clients[c].item), call[2])
           res == IF s.res.ok THEN Ok(<<>>) ELSE s.res
       IN  /\ db' = s.db
           /\ clients' = [clients EXCEPT ![c] =
                              [@ EXCEPT !.pc = "idle", !.call = None, !.item = None,
                                        !.done = Some([op |-> "update", arg |-> call,
                                                       res |-> res])]]
           /\ last' = [op |-> "update_save", arg |-> <<c, call[1], call[2]>>, res |-> res]
           /\ maxSeenSession' = SetMax({maxSeenSession} \cup Sessions(s.db.history))
           /\ everIds' = everIds \cup RowIds(s.db.history)
    /\ UNCHANGED maxNewId

\* No client has a call under way or a session id.
NoCalls ==
    /\ last = [op |-> "open", arg |-> None, res |-> Ok(<<>>)]
    /\ clients = [c \in Clients |-> ClientIdle]

\* Clients that obtain session ids and save the items of their sessions.
InitSessions ==
    /\ db = [history |-> EmptyHistory, sqlite_sequence |-> 0]
    /\ NoCalls
    /\ maxNewId = 0
    /\ maxSeenSession = 0
    /\ everIds = {}

NextSessions ==
    \/ \E c \in Clients : ClientNewSessionId(c)
    \/ \E c \in Clients, cmd \in ClientCommands : ClientSave(c, cmd)

SpecSessions == InitSessions /\ [][NextSessions]_vars

\* Clients that update the items of a table that holds one item, under id 1.
InitUpdaters ==
    /\ db = save([history |-> EmptyHistory, sqlite_sequence |-> 0],
                 from_command_line(ls)).db
    /\ NoCalls
    /\ maxNewId = 1
    /\ maxSeenSession = 0
    /\ everIds = {1}

NextUpdaters ==
    \/ \E c \in Clients, id \in Ids, f \in ClientUpdaters : ClientUpdateLoad(c, id, f)
    \/ \E c \in Clients : ClientUpdateSave(c)

SpecUpdaters == InitUpdaters /\ [][NextUpdaters]_vars

---------------------------------------------------------------------------
(* Properties.                                                             *)

\* the ids of a sequence of loaded items
ItemIds(items) == [k \in 1..Len(items) |-> Unwrap(items[k].id)]
Range(q) == {q[k] : k \in 1..Len(q)}

\* the timestamp and the duration of an item are whole milliseconds
WholeMillis(item) ==
    /\ IsSome(item.start_timestamp) => Unwrap(item.start_timestamp).ns = 0
    /\ IsSome(item.duration) => Unwrap(item.duration).ns = 0

\* C1: after save(item) of an item with id = None, in whole milliseconds,
\* load(returned id) yields the saved item with id set to the returned id.
C1_RoundTrip ==
    (last.op = "save" /\ last.arg.id = None /\ last.res.ok /\ WholeMillis(last.arg))
        => load(db, Unwrap(last.res.val.id))
               = Ok([last.arg EXCEPT !.id = last.res.val.id])

\* C2: the id a save of a new item returns is greater than every id an earlier
\* save of a new item returned, whatever was deleted or saved under an explicit
\* id in between.
C2_NewIdsIncrease ==
    [][(last'.op = "save" /\ last'.arg.id = None /\ last'.res.ok)
           => Unwrap(last'.res.val.id) > maxNewId]_vars

\* a new item was given id 2 after the row with id 1 had been deleted
C2_Witness ==
    /\ last.op = "save" /\ last.arg.id = None
    /\ last.res.val.id = Some(2)
    /\ maxNewId = 2
    /\ RowIds(db.history) = {2}

\* C3: new_session_id returns 1 when no row carries a session_id, otherwise a
\* value greater than the session_id of every row, and leaves the database as
\* it was.  (The result is a function of the table, so a call that follows
\* another call on the same table repeats the state: every other call is a
\* step that changes last.op.)
C3_NewSessionId ==
    [][last'.op = "new_session_id"
           => /\ db' = db
              /\ last'.res.ok
              /\ Sessions(db.history) = {} => last'.res.val = 1
              /\ \A k \in Sessions(db.history) : last'.res.val > k]_<<db, last.op>>

\* new_session_id was called on a table whose rows carry the session ids 1 and 2
C3_Witness ==
    /\ last.op = "new_session_id"
    /\ Sessions(db.history) = {1, 2}
    /\ last.res = Ok(3)

\* C4: the value new_session_id returns is greater than every session_id a row
\* of the store has ever carried, deleted and overwritten rows included.
C4_NewSessionIdAboveEverySeen ==
    last.op = "new_session_id" => (last.res.ok /\ last.res.val > maxSeenSession)

\* a sequence of integers is strictly ascending / strictly descending
StrictlyAscending(q) == \A k \in 1..(Len(q) - 1) : q[k] < q[k + 1]
StrictlyDescending(q) == \A k \in 1..(Len(q) - 1) : q[k] > q[k + 1]

HasTimeBound(q) == IsSome(q.start_time) \/ IsSome(q.end_time)
Unbounded(q) == ~HasTimeBound(q) /\ q.start_id = None /\ q.end_id = None
Flipped(q) ==
    [q EXCEPT !.direction = IF q.direction = "Forward" THEN "Backward" ELSE "Forward"]

\* what C5 says of the result r of search(q) on database d
SearchOrdered(d, q, r) ==
    LET whole == search(d, [q EXCEPT !.limit = None])
    IN  /\ r.ok /\ whole.ok
        /\ q.direction = "Forward" => StrictlyAscending(ItemIds(r.val))
        /\ q.direction = "Backward" => StrictlyDescending(ItemIds(r.val))
        /\ q.limit = None => r.val = whole.val
        /\ (IsSome(q.limit) /\ Unwrap(q.limit) >= 0)
               => r.val = SubSeq(whole.val, 1, Min(Unwrap(q.limit), Len(whole.val)))
        /\ (Unbounded(q) /\ q.limit = None)
               => /\ search(d, Flipped(q)).ok
                  /\ Range(search(d, Flipped(q)).val) = Range(r.val)

\* C5: for every query, search returns the matching items sorted by id, ascending
\* for Forward and descending for Backward, without duplicates; a limit n >= 0
\* keeps the first min(n, number of matches) of them; Forward and Backward of
\* an unbounded, unlimited query return the same set of items.
C5_SearchOrdered ==
    last.op = "search" => SearchOrdered(db, last.arg, last.res)

\* C5, for the queries without a time bound
C5_SearchOrderedNoTimeBound ==
    (last.op = "search" /\ ~HasTimeBound(last.arg))
        => SearchOrdered(db, last.arg, last.res)

\* C6: count(q) succeeds and returns the number of items search returns for q
\* with its limit removed, whatever q.limit is.  Stated for the queries without
\* a time bound.
C6_CountIgnoresLimit ==
    (last.op = "count" /\ ~HasTimeBound(last.arg))
        => /\ last.res.ok
           /\ search(db, [last.arg EXCEPT !.limit = None]).ok
           /\ last.res.val = Len(search(db, [last.arg EXCEPT !.limit = None]).val)

\* the failure load, delete and update return for an id that has no row
NotFound(r) ==
    /\ ~r.ok /\ ~Panicked(r)
    /\ r.err \in {"Query returned no rows", "Could not find item"}

\* the id a call of load, delete or update is about
TargetId(call) == IF call.op = "update" THEN call.arg[1] ELSE call.arg

\* C7: load, delete and update of an id that has no row return a NotFound
\* failure and leave the database as it was.
C7_AbsentIdFailsWithoutEffect ==
    [][(last'.op \in {"load", "delete", "update"}
            /\ TargetId(last') \notin RowIds(db.history))
           => (NotFound(last'.res) /\ db' = db)]_vars

\* update was called for an id without a row while another row was stored
C7_Witness ==
    /\ last.op = "update" /\ last.arg[1] = 2
    /\ RowIds(db.history) = {1}
    /\ NotFound(last.res)

\* C8: a successful update(id, f), for every f, leaves the set of ids and every
\* other row as they were and makes the row at id hold the fields of
\* f(previous item at id).
C8_UpdateKeepsIdentity ==
    [][(last'.op = "update" /\ last'.res.ok)
           => LET id == last'.arg[1]
                  item == updater(last'.arg[2], load(db, id).val)
              IN  /\ RowIds(db'.history) = RowIds(db.history)
                  /\ \A i \in RowIds(db.history) \ {id} : db'.history[i] = db.history[i]
                  /\ db'.history[id] = [save_params(item) EXCEPT !.id = id]]_vars

\* C9: save(item) with item.id = Some(i) returns the item under id i, load(i)
\* then returns exactly item, every other row is unchanged, and the number of
\* rows grows by one exactly when no row i existed.  Stated for the items in
\* whole milliseconds.
C9_SaveWithIdReplaces ==
    [][(last'.op = "save" /\ IsSome(last'.arg.id) /\ WholeMillis(last'.arg))
           => LET i == Unwrap(last'.arg.id)
              IN  /\ last'.res = Ok(last'.arg)
                  /\ load(db', i) = Ok(last'.arg)
                  /\ \A j \in RowIds(db.history) \ {i} :
                         j \in RowIds(db'.history) /\ db'.history[j] = db.history[j]
                  /\ RowIds(db'.history) = RowIds(db.history) \cup {i}]_vars

\* C10: with start_id = s and no other bound, a Forward search returns exactly
\* the matching items with id > s and a Backward search exactly those with
\* id < s; under a limit it returns only such items.
C10_StartIdExclusive ==
    (last.op = "search" /\ IsSome(last.arg.start_id) /\ last.arg.end_id = None
         /\ ~HasTimeBound(last.arg))
        => LET q == last.arg
               s == Unwrap(q.start_id)
               matching == search(db, [q EXCEPT !.start_id = None, !.limit = None])
               beyond == {i \in Range(ItemIds(matching.val)) :
                             IF q.direction = "Forward" THEN i > s ELSE i < s}
           IN  /\ last.res.ok /\ matching.ok
               /\ Range(ItemIds(last.res.val)) \subseteq beyond
               /\ q.limit = None => Range(ItemIds(last.res.val)) = beyond

\* ids 1, 2, 3 are stored and a Forward search from start_id = 1 returned 2 and 3
C10_Witness ==
    /\ last.op = "search"
    /\ last.arg = SearchQuery("Forward", None, None, Some(1), None, None, NoFilter)
    /\ RowIds(db.history) = {1, 2, 3}
    /\ last.res.ok /\ ItemIds(last.res.val) = <<2, 3>>

\* C11: a search with end_id = e, in either direction, never returns the item
\* with id e: Forward returns only ids below e, Backward only ids above e.
C11_EndIdExclusive ==
    (last.op = "search" /\ IsSome(last.arg.end_id) /\ ~HasTimeBound(last.arg))
        => /\ last.res.ok
           /\ \A i \in Range(ItemIds(last.res.val)) :
                  IF last.arg.direction = "Forward"
                  THEN i < Unwrap(last.arg.end_id)
                  ELSE i > Unwrap(last.arg.end_id)

\* x begins with the characters of p / holds p as a contiguous run of characters
starts_with(x, p) == Len(p) <= Len(x) /\ SubSeq(x, 1, Len(p)) = p
contains(x, p) ==
    \E k \in 0..(Len(x) - Len(p)) : SubSeq(x, k + 1, k + Len(p)) = p

\* the command_line match as the data model defines it
command_line_matches(c, text) ==
    CASE c.kind = "Exact" -> text = c.text
      [] c.kind = "Prefix" -> starts_with(text, c.text)
      [] c.kind = "Substring" -> contains(text, c.text)

\* an item satisfies every present field of a filter
satisfies(item, f) ==
    /\ IsSome(f.command_line)
           => command_line_matches(Unwrap(f.command_line), item.command_line)
    /\ IsSome(f.not_command_line) => item.command_line # Unwrap(f.not_command_line)
    /\ IsSome(f.hostname) => item.hostname = f.hostname
    /\ IsSome(f.cwd_exact) => item.cwd = f.cwd_exact
    /\ IsSome(f.cwd_prefix)
           => (IsSome(item.cwd) /\ starts_with(Unwrap(item.cwd), Unwrap(f.cwd_prefix)))
    /\ f.exit_successful = Some(TRUE) => item.exit_status = Some(0)
    /\ f.exit_successful = Some(FALSE)
           => (IsSome(item.exit_status) /\ Unwrap(item.exit_status) # 0)

\* an id lies strictly inside the id bounds of a query, on the scan side
within_id_bounds(i, q) ==
    /\ IsSome(q.start_id)
           => IF q.direction = "Forward" THEN i > Unwrap(q.start_id)
                                         ELSE i < Unwrap(q.start_id)
    /\ IsSome(q.end_id)
           => IF q.direction = "Forward" THEN i < Unwrap(q.end_id)
                                         ELSE i > Unwrap(q.end_id)

\* the ids of the stored items that satisfy the filter and the id bounds of q
matching_ids(d, q) ==
    {i \in RowIds(d.history) :
        satisfies(load(d, i).val, q.filter) /\ within_id_bounds(i, q)}

\* C12: for every combination of filter fields and id bounds, an unlimited search
\* returns exactly the stored items that satisfy every present predicate; an
\* item without exit status is returned under neither value of exit_successful.
C12_FilterConjunction ==
    (last.op = "search" /\ ~HasTimeBound(last.arg) /\ last.arg.limit = None)
        => /\ last.res.ok
           /\ Range(ItemIds(last.res.val)) = matching_ids(db, last.arg)

\* C12, for the filters whose texts hold no letter of the other case and no
\* % or _, without end_id
C12_FilterConjunctionPlainTexts ==
    (last.op = "search" /\ ~HasTimeBound(last.arg) /\ last.arg.limit = None
         /\ last.arg.filter \in Filters /\ last.arg.end_id = None)
        => /\ last.res.ok
           /\ Range(ItemIds(last.res.val)) = matching_ids(db, last.arg)

\* C13: a search with command_line = Exact(s) returns exactly the stored items
\* whose command_line equals s character for character.
C13_ExactIsEquality ==
    (last.op = "search" /\ ~HasTimeBound(last.arg) /\ last.arg.limit = None
         /\ IsSome(last.arg.filter.command_line)
         /\ Unwrap(last.arg.filter.command_line).kind = "Exact")
        => /\ last.res.ok
           /\ \A k \in 1..Len(last.res.val) :
                  last.res.val[k].command_line = Unwrap(last.arg.filter.command_line).text

\* C14: Prefix(p) returns only items whose command_line begins with p,
\* Substring(p) only items whose command_line contains p, cwd_prefix = p only
\* items whose cwd begins with p, the characters % and _ of p included.
C14_PatternsLiteral ==
    (last.op = "search" /\ ~HasTimeBound(last.arg))
        => LET f == last.arg.filter
           IN  /\ last.res.ok
               /\ \A k \in 1..Len(last.res.val) :
                      /\ (IsSome(f.command_line) /\ Unwrap(f.command_line).kind = "Prefix")
                             => starts_with(last.res.val[k].command_line,
                                            Unwrap(f.command_line).text)
                      /\ (IsSome(f.command_line)
                              /\ Unwrap(f.command_line).kind = "Substring")
                             => contains(last.res.val[k].command_line,
                                         Unwrap(f.command_line).text)
                      /\ IsSome(f.cwd_prefix)
                             => /\ IsSome(last.res.val[k].cwd)
                                /\ starts_with(Unwrap(last.res.val[k].cwd),
                                               Unwrap(f.cwd_prefix))

\* an item's start timestamp lies inside the time bounds of a query
within_time_bounds(item, q) ==
    LET t == timestamp_millis(Unwrap(item.start_timestamp))
    IN  /\ IsSome(q.start_time)
               => /\ IsSome(item.start_timestamp)
                  /\ IF q.direction = "Forward"
                     THEN t > timestamp_millis(Unwrap(q.start_time))
                     ELSE t < timestamp_millis(Unwrap(q.start_time))
        /\ IsSome(q.end_time)
               => /\ IsSome(item.start_timestamp)
                  /\ IF q.direction = "Forward"
                     THEN t <= timestamp_millis(Unwrap(q.end_time))
                     ELSE t >= timestamp_millis(Unwrap(q.end_time))

\* C15: search and count with a time bound succeed and select the items whose
\* start_timestamp is strictly beyond start_time and not beyond end_time, in
\* the direction of the scan.
C15_TimeBoundsSelect ==
    (last.op \in {"search", "count"} /\ HasTimeBound(last.arg)
         /\ last.arg.limit = None)
        => LET ids == {i \in RowIds(db.history) :
                          within_time_bounds(load(db, i).val, last.arg)}
           IN  /\ last.res.ok
               /\ last.op = "search" => Range(ItemIds(last.res.val)) = ids
               /\ last.op = "count" => last.res.val = Cardinality(ids)

\* C16: search and count return, with a result or a failure, for every query:
\* no call aborts.
C16_NoAbort ==
    last.op \in {"search", "count"} => ~Panicked(last.res)

\* the query q with every value that is present replaced: same direction, same
\* fields present, same exit_successful
with_values(q, sid, eid, lim, t, c, txt, host) ==
    [q EXCEPT !.start_time = map(@, t), !.end_time = map(@, t),
              !.start_id = map(@, HistoryItemId(sid)),
              !.end_id = map(@, HistoryItemId(eid)),
              !.limit = map(@, lim),
              !.filter.command_line = map(@, c),
              !.filter.not_command_line = map(@, txt),
              !.filter.hostname = map(@, host),
              !.filter.cwd_exact = map(@, txt),
              !.filter.cwd_prefix = map(@, txt)]

\* queries of the shape of q over other values
same_shape(q) ==
    {with_values(q, sid, eid, lim, t, c, txt, host) :
        sid \in {1, MaxRows}, eid \in {1, MaxRows}, lim \in {0, MaxLimit},
        t \in {DateTime(0, 0), DateTime(1500, 0)},
        c \in {CommandLineSearch("Exact", ls), CommandLineSearch("Prefix", pct),
               CommandLineSearch("Substring", LS)},
        txt \in {ls, pct}, host \in {"h1", "h2"}}

\* the placeholder a where clause holds, None for a clause without one
placeholder(w) ==
    CASE w \in {"timestamp_start > :start_time", "timestamp_start < :start_time"}
             -> Some(":start_time")
      [] w \in {":end_time >= timestamp_start", ":end_time <= timestamp_start"}
             -> Some(":end_time")
      [] w \in {"id > :start_id", "id < :start_id", "id >= :start_id", "id <= :start_id"}
             -> Some(":start_id")
      [] w \in {":end_id >= id", ":end_id <= id"} -> Some(":end_id")
      [] w = "command_line like :command_line" -> Some(":command_line")
      [] w = "command_line != :not_cmd" -> Some(":not_cmd")
      [] w = "hostname = :hostname" -> Some(":hostname")
      [] w = "cwd = :cwd" -> Some(":cwd")
      [] w = "cwd like :cwd_like" -> Some(":cwd_like")
      [] w \in {"exit_status = 0", "exit_status != 0", "true"} -> None

\* the placeholders of a statement text
placeholders(text) ==
    {Unwrap(placeholder(text.wheres[k])) :
        k \in {j \in 1..Len(text.wheres) : IsSome(placeholder(text.wheres[j]))}}
    \cup (IF text.limit = "limit :limit" THEN {":limit"} ELSE {})

\* C17: the statement text construct_query produces is the same for all queries
\* of one direction with the same fields present and the same exit_successful,
\* whatever the values of the bounds, the limit and the filter texts; the
\* parameters bound are the placeholders of the text, one each.
C17_ValuesOnlyInParams ==
    last.op = "construct_query"
        => /\ \A q2 \in same_shape(last.arg) :
                  construct_query(q2, last.res.text.select).text = last.res.text
           /\ {last.res.params[k][1] : k \in 1..Len(last.res.params)}
                  = placeholders(last.res.text)
           /\ Len(last.res.params) = Cardinality(placeholders(last.res.text))

\* construct_query was called with a limit, an id bound and texts for two filter
\* fields, which it bound as four parameters
C17_Witness ==
    /\ last.op = "construct_query"
    /\ last.arg = SearchQuery("Backward", None, None, Some(2), None, Some(1),
                     SearchFilter(None, Some(ls), None, None, Some(dir_a), Some(FALSE)))
    /\ Len(last.res.params) = 4
    /\ last.res.text.limit = "limit :limit"

\* C20: every row is the only row with its id, and the id save gives a new
\* item is the id of no row the table has ever held, deleted rows included.
C20_IdsUniqueNeverReused ==
    /\ [](\A i \in RowIds(db.history) : db.history[i].id = i)
    /\ [][(last'.op = "save" /\ last'.arg.id = None /\ last'.res.ok)
              => /\ Unwrap(last'.res.val.id) \notin everIds
                 /\ Unwrap(last'.res.val.id) \in RowIds(db'.history)]_<<db, everIds>>

\* the row with the highest id, 1, was deleted and the next new item was saved
\* under id 2
C20_Witness ==
    /\ last.op = "save" /\ last.arg.id = None /\ last.res.ok
    /\ everIds = {1, 2}
    /\ RowIds(db.history) = {2}
    /\ db.sqlite_sequence = 2

\* client c completes its update in this step: its save runs
UpdateSaved(c) == clients[c].pc = "update_loaded" /\ clients'[c].pc = "idle"

\* C18: the save of an update writes the transformation of the item its load
\* returned, whatever other clients have written to the row since, and the
\* update returns success; a write made between the two steps is lost.
C18_UpdateNotAtomic ==
    [][\A c \in Clients :
           UpdateSaved(c)
               => LET id == Unwrap(clients[c].call)[1]
                      f == Unwrap(clients[c].call)[2]
                  IN  /\ Unwrap(clients'[c].done).res = Ok(<<>>)
                      /\ load(db', id) = Ok(updater(f, Unwrap(clients[c].item)))]_<<db, clients>>

\* both clients' updates of row 1 returned success, c1's set the exit status and
\* c2's the hostname, and the row holds the exit status but no hostname
C18_Witness ==
    /\ clients["c1"].pc = "idle" /\ clients["c2"].pc = "idle"
    /\ clients["c1"].done = Some([op |-> "update", arg |-> <<1, "set_exit_status">>,
                                  res |-> Ok(<<>>)])
    /\ clients["c2"].done = Some([op |-> "update", arg |-> <<1, "set_hostname">>,
                                  res |-> Ok(<<>>)])
    /\ 1 \in RowIds(db.history)
    /\ db.history[1].exit_status = Some(0)
    /\ db.history[1].hostname = None

\* C19: new_session_id returns again a session id that a client (another one or
\* the caller itself) holds and that no row carries yet (no row carries that id
\* or a greater one).
C19_SessionIdHandedOutAgain ==
    [][\A c \in Clients :
           (last'.op = "new_session_id" /\ last'.arg = <<c>> /\ db' = db)
               => \A c2 \in Clients :
                      (/\ IsSome(clients[c2].session)
                       /\ \A k \in Sessions(db.history) : k < Unwrap(clients[c2].session))
                          => clients'[c].session = clients[c2].session]_<<clients, last.op, last.arg>>

\* c2 obtained the session id 1 that c1 holds, and no row carries a session id
C19_Witness ==
    /\ last.op = "new_session_id" /\ last.arg = <<"c2">>
    /\ clients["c1"].session = Some(1)
    /\ clients["c2"].session = Some(1)
    /\ Sessions(db.history) = {}

===========================================================================
